---- MODULE Spec2Model ----
(***************************************************************************)
(* State-machine model of the Bee sync plugin (src/main.ts): the two sync  *)
(* operations of BeePlugin, BeeAPI's paginated fetch and its audit log,    *)
(* against a vault (folders and files) and a remote server.  Every await   *)
(* of the code is one step of a sync's program counter.                    *)
(***************************************************************************)
EXTENDS Integers, Sequences, FiniteSets, TLC

(***************************************************************************)
(* Bounds of the model.                                                    *)
(***************************************************************************)
\* Requests one sync may issue before the model stops following it.
MaxRequests == 3
\* Largest page number a response's meta block may declare.
MaxPages == 2
\* Vault or network calls that may fail during one behaviour.
MaxFaults == 1

\* Settings changes whose saveSettings call may be pending at once.
MaxSaving == 2

\* The sync operations of one behaviour, in invocation order.
Syncs == {1, 2}

(***************************************************************************)
(* Strings are sequences of tokens; concatenation is \o.                   *)
(***************************************************************************)
RECURSIVE Join(_, _)
\* Array.prototype.join: the items separated by sep.
Join(items, sep) ==
    IF Len(items) = 0 THEN <<>>
    ELSE IF Len(items) = 1 THEN items[1]
    ELSE items[1] \o <<sep>> \o Join(Tail(items), sep)

RECURSIVE Flatten(_)
\* Array.prototype.push(...page) over all pages: the pages' items in order.
Flatten(pages) ==
    IF Len(pages) = 0 THEN <<>> ELSE Head(pages) \o Flatten(Tail(pages))

IsPrefix(s, t) == Len(s) <= Len(t) /\ SubSeq(t, 1, Len(s)) = s

(***************************************************************************)
(* Timestamps.  A timestamp string is a calendar day (days since           *)
(* 2025-01-01), an hour and a UTC offset in hours, or is unparsable.       *)
(***************************************************************************)
Stamp(d, h, o) == [valid |-> TRUE, day |-> d, hour |-> h, off |-> o]
BadStamp == [valid |-> FALSE, day |-> 0, hour |-> 0, off |-> 0]

\* new Date(s).getTime(), in hours since 2025-01-01T00:00Z.
EpochHours(ts) == ts.day * 24 + ts.hour - ts.off

\* The calendar-day label of a day number.
DateLabel(d) ==
    CASE d = -1 -> "2024-12-31"
      [] d = 0  -> "2025-01-01"
      [] d = 1  -> "2025-01-02"
      [] d = 2  -> "2025-01-03"

\* The calendar day as written in the timestamp, its offset ignored.
ISODateLocal(ts) == DateLabel(ts.day)

\* new Date(s).toISOString().split('T')[0]: the UTC calendar day.
ISODate(ts) == DateLabel(EpochHours(ts) \div 24)

(***************************************************************************)
(* Records served by the remote API.                                       *)
(***************************************************************************)
\* A record as both syncs read it: its timestamp (date, created_at), its
\* text (content, short_summary), and the summary and address that
\* formatConversationsToMarkdown reads; hasSummary tells whether the record
\* has a summary at all.
Rec(i, ts, c, hs, sm, ad) ==
    [id |-> i, date |-> ts, content |-> c,
     hasSummary |-> hs, summary |-> sm, address |-> ad]

RecA == Rec(1, Stamp(0, 23, 0), "a", TRUE, "sum-a", "addr-a")
                                         \* 2025-01-01T23:00:00Z
RecB == Rec(2, Stamp(1, 1, 0), "b", TRUE, "sum-b", "addr-b")
                                         \* 2025-01-02T01:00:00Z
RecC == Rec(3, Stamp(1, 1, 3), "c", TRUE, "sum-c", "addr-c")
                                         \* 2025-01-02T01:00:00+03:00
RecD == Rec(4, BadStamp, "d", TRUE, "sum-d", "addr-d")
                                         \* no parsable timestamp
RecE == Rec(5, Stamp(1, 2, 0), "e", FALSE, "", "addr-e")
                                         \* 2025-01-02T02:00:00Z, no summary

\* What the server holds: for each page number, that page's records.
Datasets ==
    { <<<<RecA, RecB>>, <<RecC>>>>,
      <<<<RecC, RecD>>, <<RecA>>>> }

\* The records the server holds for page k (none past the last page).
\* A request without a page parameter (k = 0) is answered with all of them.
PageData(ds, k) ==
    IF k = 0 THEN Flatten(ds) ELSE IF k \in 1..Len(ds) THEN ds[k] ELSE <<>>

(***************************************************************************)
(* Outcomes of requestUrl.  "throw": the request fails (network error or   *)
(* non-2xx status).  "nojson": response.json is falsy.  "array": the body  *)
(* is a bare JSON array.  "object": the body is an object, with or without *)
(* a data field and a meta pagination block.                               *)
(***************************************************************************)
Resp(k, hd, d, hm, c, t) ==
    [kind |-> k, status |-> 200, hasData |-> hd, data |-> d,
     hasMeta |-> hm, cur |-> c, tot |-> t]

Responses(ds, k) ==
    { Resp("throw", FALSE, <<>>, FALSE, 0, 0),
      Resp("nojson", FALSE, <<>>, FALSE, 0, 0),
      Resp("array", FALSE, PageData(ds, k), FALSE, 0, 0) }
    \cup { Resp("object", FALSE, <<>>, FALSE, 0, 0),
           Resp("object", TRUE, PageData(ds, k), FALSE, 0, 0) }
    \cup { Resp("object", hd, IF hd THEN PageData(ds, k) ELSE <<>>, TRUE, c, t) :
             hd \in BOOLEAN, c \in 1..MaxPages, t \in 1..MaxPages }

\* The documented answer to page k: the page's records and a meta block
\* naming k and the number of pages.
Documented(ds, k) ==
    Resp("object", TRUE, PageData(ds, k), TRUE, k, Len(ds))

(***************************************************************************)
(* Constants of the program.                                               *)
(***************************************************************************)
\* src/main.ts:307, the audit log's folder, and :308, its file.
logFolderPath == "Bee Daily"
logFilePath == <<logFolderPath, "api-logs">>

\* A logToFile whose catch block only reports the error to the console.
LogSwallows == FALSE

\* src/main.ts:339: logToFile's catch block rethrows the error it caught.
LogRethrows == TRUE

\* Values the folder-path setting may hold, and normalizePath of each
\* (src/main.ts:102): a trailing slash is dropped.
FolderSettings == {"Bee Daily", "Bee Daily/", "Notes"}

\* src/main.ts:23, DEFAULT_SETTINGS.startDate, and the values the Start Date
\* field may be given.
DefaultStartDate == "2025-02-09"
StartDates == {DefaultStartDate, "2025-03-01"}
normalizePath(raw) == IF raw = "Bee Daily/" THEN "Bee Daily" ELSE raw

\* `${folderPath}/${stem}.md`
FilePath(dir, stem) == <<dir, stem>>

\* The user notifications (new Notice(...)): the text and what it names.
Note(t, a) == [text |-> t, arg |-> a]
NoticeMissingKey == Note("Please set your Bee API key in settings", "")
NoticeStart == Note("Starting Bee Daily sync...", "")
NoticeComplete(o) ==
    IF o = "daily" THEN Note("Bee Daily sync complete!", "")
    ELSE Note("Bee Conversations sync complete!", "")
NoticeError(o) ==
    IF o = "daily"
    THEN Note("Error syncing Bee Days. Check console for details.", "")
    ELSE Note("Error syncing Bee Conversations. Check console for details.", "")
NoticeSynced(d) == Note("Synced entries for ", d)

(***************************************************************************)
(* Audit-log messages (the template literals passed to logToFile).         *)
(***************************************************************************)
Entry(k, pg, t) == [kind |-> k, page |-> pg, text |-> t]
RequestEntry(pg) == Entry("REQUEST", pg, "")
ResponseEntry(st) == Entry("RESPONSE", st, "")
ErrorEntry(msg) == Entry("ERROR", 0, msg)
OldEntry == Entry("OLD", 0, "")

(***************************************************************************)
(* Grouping and rendering (pure).                                          *)
(***************************************************************************)
\* The Map entriesByDate after logs.forEach: one [date, entries] pair per
\* date, in order of first insertion, entries in iteration order.
RECURSIVE GroupInto(_, _)
GroupInto(groups, logs) ==
    IF Len(logs) = 0 THEN groups
    ELSE LET log == Head(logs)
             dateStr == ISODate(log.date)
             has == \E i \in 1..Len(groups) : groups[i].date = dateStr
             next ==
                 IF has
                 THEN [i \in 1..Len(groups) |->
                         IF groups[i].date = dateStr
                         THEN [groups[i] EXCEPT !.entries = Append(@, log)]
                         ELSE groups[i]]
                 ELSE Append(groups, [date |-> dateStr, entries |-> <<log>>])
         IN  GroupInto(next, Tail(logs))

GroupByDate(logs) == GroupInto(<<>>, logs)

\* new Date(x).toISOString() throws RangeError on an unparsable timestamp.
GroupingThrows(logs) == \E i \in 1..Len(logs) : ~logs[i].date.valid

\* `# ${dateStr}\n\n${dateEntries.map(entry => entry.content).join('\n\n')}`
RenderDaily(g) ==
    <<"# ", g.date, "\n\n">>
      \o Join([i \in 1..Len(g.entries) |-> <<g.entries[i].content>>], "\n\n")

\* formatConversationsToMarkdown's first loop: new Date(conv.created_at)
\* .toISOString() throws on an unparsable timestamp and conv.summary.split
\* throws on a conversation without a summary.
FormatThrows(convs) ==
    \E i \in 1..Len(convs) : ~convs[i].date.valid \/ ~convs[i].hasSummary

\* The template literal of one conversation.
RenderConversation(conv) ==
    <<"\n# ", conv.content, "\n\n## ", conv.summary,
      "\n\nAddress: ", conv.address, "\n\t\t\t\t">>

RECURSIVE RenderGroups(_)
\* formatConversationsToMarkdown's second loop over the date groups.
RenderGroups(groups) ==
    IF Len(groups) = 0 THEN <<>>
    ELSE LET g == Head(groups)
         IN  <<"# Conversations for ", g.date, "\n\n">>
               \o Join([i \in 1..Len(g.entries) |->
                          RenderConversation(g.entries[i])], "\n---\n")
               \o <<"\n\n">>
               \o RenderGroups(Tail(groups))

(***************************************************************************)
(* State.                                                                  *)
(***************************************************************************)
VARIABLES
    settings,   \* BeePlugin.settings: apiKey, folderPath and startDate
    apiKey,     \* BeeAPI.apiKey, the API object's own copy of the key
    folders,    \* the vault's folders
    files,      \* the vault's files: path -> content
    faults,     \* vault calls that may still fail
    dataset,    \* what the server holds
    honest,     \* whether the server answers every page as documented
    saving,     \* saveSettings calls waiting for saveData to resolve
    sync        \* per sync operation: its locals, position and history

vars ==
    <<settings, apiKey, folders, files, faults, dataset, honest, saving, sync>>

Ops == {"daily", "conversations"}

\* A sync operation before it is invoked.
NewSync ==
    [pc |-> "idle", op |-> "daily", guardKey |-> "", folderPath |-> "",
     currentPage |-> 1, totalPages |-> 1, allBeeDaily |-> <<>>,
     response |-> Resp("nojson", FALSE, <<>>, FALSE, 0, 0),
     logMessage |-> OldEntry, logRet |-> "", exists |-> FALSE,
     currentContent |-> <<>>, logs |-> <<>>, entriesByDate |-> <<>>,
     \* history
     notices |-> <<>>, requests |-> <<>>, responses |-> <<>>,
     written |-> <<>>, logged |-> <<>>, raised |-> <<>>,
     returned |-> FALSE, filesBefore |-> <<>>]

\* A write that appends to what the file holds.
WriteFileAppend(fs, path, content) ==
    (path :> ((IF path \in DOMAIN fs THEN fs[path] ELSE <<>>) \o content)) @@ fs

\* vault.adapter.write(path, content): the file holds content, whatever it
\* held.
WriteFile(fs, path, content) == (path :> content) @@ fs

\* Logger.logFile, and the message onload passes to Logger.log.
buildLogPath == <<"Bee Daily", "build-logs">>
LoadEntry == Entry("INFO", 0, "Plugin loading...")

\* How the vault answers Logger.log's calls: all resolve, the first one
\* rejects, or the write rejects.
LoggerOutcomes == {"ok", "rejected", "unwritten"}

\* The vault after Logger.log(message): the build log gets the message
\* appended, or is created with it after its folder was created when
\* missing; its catch block keeps a rejection from the caller.
LoggerLog(v, message, outcome) ==
    IF outcome = "rejected" THEN v
    ELSE IF buildLogPath \in DOMAIN v.files
    THEN IF outcome = "unwritten" THEN v
         ELSE [v EXCEPT !.files =
                 WriteFile(@, buildLogPath,
                           Append(v.files[buildLogPath], message))]
    ELSE LET made == [v EXCEPT !.folders = @ \cup {buildLogPath[1]}]
         IN  IF outcome = "unwritten" THEN made
             ELSE [made EXCEPT !.files =
                     WriteFile(@, buildLogPath, <<message>>)]

\* The vault when the plugin starts loading: nothing yet, or the folders
\* and files earlier runs left.
VaultsBefore ==
    { [folders |-> {}, files |-> <<>>],
      [folders |-> {"Bee Daily", "Notes"},
       files |-> (logFilePath :> <<OldEntry>>)
                   @@ (buildLogPath :> <<LoadEntry>>)
                   @@ (FilePath("Bee Daily", "2025-01-01") :> <<"stale">>)] }

\* The vault when the plugin has loaded: onload has awaited Logger.log.
InitialVaults ==
    { LoggerLog(v, LoadEntry, o) : v \in VaultsBefore, o \in LoggerOutcomes }

Init ==
    /\ settings \in [apiKey : {"", "k1"}, folderPath : FolderSettings,
                     startDate : {DefaultStartDate}]
    /\ apiKey = settings.apiKey
    /\ \E v \in InitialVaults : folders = v.folders /\ files = v.files
    /\ faults = MaxFaults
    /\ dataset \in Datasets
    /\ honest = FALSE
    /\ saving = 0
    /\ sync = [p \in Syncs |-> NewSync]

(***************************************************************************)
(* Steps of the code as functions of a sync's record s.                    *)
(***************************************************************************)
Notify(s, n) == [s EXCEPT !.notices = Append(@, n)]
Raise(s, what) == [s EXCEPT !.raised = Append(@, what)]

\* The catch block of syncBeeDaily / syncBeeConversations.
SyncCatch(s) == [Notify(s, NoticeError(s.op)) EXCEPT !.pc = "done"]

\* A call of logToFile(message) whose caller continues at ret.
CallLog(s, message, ret) ==
    [s EXCEPT !.pc = "log_dir", !.logMessage = message, !.logRet = ret,
              !.logged = Append(@, message)]

\* A catch block that returns what was fetched so far.
ApiCatchPartial(s, msg) ==
    [s EXCEPT !.pc = "grouping", !.returned = TRUE, !.logs = s.allBeeDaily]

\* The catch block of getBeeDaily / getBeeConversations: log, then rethrow.
ApiCatch(s, msg) == CallLog(s, ErrorEntry(msg), "rethrow")

\* requestUrl is called with the API object's key; the response is awaited.
IssueRequest(s, key) ==
    [s EXCEPT !.pc = "request",
              !.requests = Append(@, [page |-> s.currentPage, key |-> key])]

\* logToFile returns to its caller.
LogReturn(s, key) ==
    CASE s.logRet = "send" -> IssueRequest(s, key)
      [] s.logRet = "check" -> [s EXCEPT !.pc = "check"]
      [] s.logRet = "rethrow" -> SyncCatch(s)

\* A vault call inside logToFile threw: its catch block.
LogThrow(s, key) ==
    LET r == Raise(s, "log")
    IN  IF LogRethrows
        THEN CASE r.logRet = "send" -> SyncCatch(r)
               [] r.logRet = "check" -> ApiCatch(r, "log failed")
               [] r.logRet = "rethrow" -> SyncCatch(r)
        ELSE LogReturn(r, key)

\* value || 1
Or1(x) == IF x = 0 THEN 1 ELSE x

\* A next page counted from the fetcher's own counter.
NextPageCounter(counter, cur) == counter + 1

\* currentPage = data.meta?.currentPage || 1; currentPage++
NextPage(counter, cur) == Or1(cur) + 1

\* A loop test that stops one page early.
LoopAgainStrict(cur, tot) == cur < tot

\* while (currentPage <= totalPages)
LoopAgain(cur, tot) == cur <= tot

\* data.data || []
DataOf(r) == IF r.kind = "object" /\ r.hasData THEN r.data ELSE <<>>

\* getBeeDaily / getBeeConversations up to their first await.
BeginFetch(s) ==
    IF s.op = "daily"
    THEN CallLog([Notify(s, NoticeStart) EXCEPT !.currentPage = 1,
                     !.totalPages = 1, !.allBeeDaily = <<>>],
                 RequestEntry(1), "send")
    ELSE CallLog([s EXCEPT !.currentPage = 0], RequestEntry(0), "send")

\* getBeeDaily after the response was logged: the format check, the
\* accumulation and the pagination update, to the loop test.
AfterResponse(s) ==
    LET r == s.response
        next == NextPage(s.currentPage, r.cur)
        t == [s EXCEPT !.allBeeDaily = @ \o DataOf(r),
                       !.currentPage = next,
                       !.totalPages = Or1(r.tot)]
    IN  IF r.kind = "nojson"
        THEN ApiCatch(Raise(s, "json"), "Invalid response format")
        ELSE IF LoopAgain(t.currentPage, t.totalPages)
        THEN CallLog(t, RequestEntry(t.currentPage), "send")
        ELSE [t EXCEPT !.pc = "grouping", !.logs = t.allBeeDaily,
                       !.returned = TRUE]

\* getBeeConversations after the response was logged; the caller then
\* tests conversations.length, which only an array has.
AfterConversations(s) ==
    LET r == s.response
    IN  IF r.kind = "nojson"
        THEN ApiCatch(Raise(s, "json"), "Invalid response format")
        ELSE [s EXCEPT !.pc = "grouping", !.returned = TRUE,
                       !.logs = IF r.kind = "array" THEN r.data ELSE <<>>]

\* Whether getBeeDaily goes round its loop again after this response.
Continues(s) ==
    /\ s.op = "daily"
    /\ s.response.kind # "nojson"
    /\ LoopAgain(NextPage(s.currentPage, s.response.cur),
                 Or1(s.response.tot))

\* The sync after the fetch returned: grouping by date.
Grouped(s) ==
    IF Len(s.logs) = 0
    THEN [Notify(s, NoticeComplete(s.op)) EXCEPT !.pc = "done"]
    ELSE IF (IF s.op = "daily" THEN GroupingThrows(s.logs)
             ELSE FormatThrows(s.logs))
    THEN SyncCatch(Raise(s, "grouping"))
    ELSE [s EXCEPT !.pc = "writing", !.entriesByDate = GroupByDate(s.logs)]

\* The date group the daily sync's for loop is at: the files written so
\* far are those of the groups before it.
Current(s) == s.entriesByDate[Len(s.written) + 1]

\* The file the sync writes next, and its content.
WritePath(s) ==
    IF s.op = "daily" THEN FilePath(s.folderPath, Current(s).date)
    ELSE FilePath(s.folderPath, "conversations")
WriteContent(s) ==
    IF s.op = "daily" THEN RenderDaily(Current(s))
    ELSE RenderGroups(s.entriesByDate)

\* The sync after vault.adapter.write resolved.
Wrote(s) ==
    LET w == [s EXCEPT !.written = Append(@, WritePath(s))]
        n == Notify(w, NoticeSynced(Current(s).date))
    IN  IF s.op = "daily"
        THEN IF Len(w.written) = Len(s.entriesByDate)
             THEN [Notify(n, NoticeComplete(s.op)) EXCEPT !.pc = "done"]
             ELSE n
        ELSE [Notify(w, NoticeComplete(s.op)) EXCEPT !.pc = "done"]

(***************************************************************************)
(* Actions: one per await of the code.                                     *)
(***************************************************************************)
\* A vault call may fail while the behaviour has faults left.
MayFail == IF faults > 0 THEN BOOLEAN ELSE {FALSE}
Spend(fail) == faults' = IF fail THEN faults - 1 ELSE faults
Set(p, s) == sync' = [sync EXCEPT ![p] = s]

\* One sync at a time, in order.
Serial(p) == \A q \in Syncs : q < p => sync[q].pc = "done"

\* An invocation that skips the missing-key guard.
StartUnguarded(p, o) ==
    /\ sync[p].pc = "idle"
    /\ Set(p, [sync[p] EXCEPT !.op = o, !.guardKey = settings.apiKey,
                  !.filesBefore = files, !.pc = "ensure_exists",
                  !.folderPath = normalizePath(settings.folderPath)])
    /\ UNCHANGED <<settings, apiKey, folders, files, faults, dataset, honest, saving>>

\* syncBeeDaily / syncBeeConversations is invoked: the missing-key guard,
\* then normalizePath and the call of ensureFolderExists.
Start(p, o) ==
    /\ sync[p].pc = "idle"
    /\ LET s == [sync[p] EXCEPT !.op = o, !.guardKey = settings.apiKey,
                                !.filesBefore = files]
       IN  Set(p, IF settings.apiKey = ""
                  THEN [Notify(s, NoticeMissingKey) EXCEPT !.pc = "done"]
                  ELSE [s EXCEPT !.pc = "ensure_exists",
                           !.folderPath = normalizePath(settings.folderPath)])
    /\ UNCHANGED <<settings, apiKey, folders, files, faults, dataset, honest, saving>>

\* ensureFolderExists: vault.adapter.exists(path) resolves.
EnsureExists(p) ==
    /\ sync[p].pc = "ensure_exists"
    /\ \E fail \in MayFail :
         /\ Spend(fail)
         /\ Set(p, IF fail THEN SyncCatch(Raise(sync[p], "exists"))
                   ELSE IF sync[p].folderPath \in folders
                   THEN BeginFetch(sync[p])
                   ELSE [sync[p] EXCEPT !.pc = "ensure_create"])
    /\ UNCHANGED <<settings, apiKey, folders, files, dataset, honest, saving>>

\* A createFolder that resolves when the folder is already there.
EnsureCreateTolerant(p) ==
    /\ sync[p].pc = "ensure_create"
    /\ \E fail \in MayFail :
         /\ Spend(fail)
         /\ IF fail
            THEN /\ Set(p, SyncCatch(Raise(sync[p], "createFolder")))
                 /\ UNCHANGED folders
            ELSE /\ Set(p, BeginFetch(sync[p]))
                 /\ folders' = folders \cup {sync[p].folderPath}
    /\ UNCHANGED <<settings, apiKey, files, dataset, honest, saving>>

\* ensureFolderExists: vault.createFolder(path) resolves; it rejects when
\* the folder exists.
EnsureCreate(p) ==
    /\ sync[p].pc = "ensure_create"
    /\ \E fail \in MayFail :
         /\ Spend(fail)
         /\ IF fail \/ sync[p].folderPath \in folders
            THEN /\ Set(p, SyncCatch(Raise(sync[p], "createFolder")))
                 /\ UNCHANGED folders
            ELSE /\ Set(p, BeginFetch(sync[p]))
                 /\ folders' = folders \cup {sync[p].folderPath}
    /\ UNCHANGED <<settings, apiKey, files, dataset, honest, saving>>

\* logToFile: vault.adapter.exists(logFolderPath) resolves.
LogDir(p) ==
    /\ sync[p].pc = "log_dir"
    /\ \E fail \in MayFail :
         /\ Spend(fail)
         /\ Set(p, IF fail THEN LogThrow(sync[p], apiKey)
                   ELSE IF logFolderPath \in folders
                   THEN [sync[p] EXCEPT !.pc = "log_file"]
                   ELSE [sync[p] EXCEPT !.pc = "log_mkdir"])
    /\ UNCHANGED <<settings, apiKey, folders, files, dataset, honest, saving>>

\* logToFile: vault.createFolder(logFolderPath) resolves.
LogMkdir(p) ==
    /\ sync[p].pc = "log_mkdir"
    /\ \E fail \in MayFail :
         /\ Spend(fail)
         /\ IF fail \/ logFolderPath \in folders
            THEN /\ Set(p, LogThrow(sync[p], apiKey))
                 /\ UNCHANGED folders
            ELSE /\ Set(p, [sync[p] EXCEPT !.pc = "log_file"])
                 /\ folders' = folders \cup {logFolderPath}
    /\ UNCHANGED <<settings, apiKey, files, dataset, honest, saving>>

\* logToFile: vault.adapter.exists(logFilePath) resolves.
LogFile(p) ==
    /\ sync[p].pc = "log_file"
    /\ \E fail \in MayFail :
         /\ Spend(fail)
         /\ Set(p, IF fail THEN LogThrow(sync[p], apiKey)
                   ELSE IF logFilePath \in DOMAIN files
                   THEN [sync[p] EXCEPT !.pc = "log_read", !.exists = TRUE]
                   ELSE [sync[p] EXCEPT !.pc = "log_write", !.exists = FALSE,
                                        !.currentContent = <<>>])
    /\ UNCHANGED <<settings, apiKey, folders, files, dataset, honest, saving>>

\* logToFile: vault.adapter.read(logFilePath) resolves; it rejects when the
\* file is gone.
LogRead(p) ==
    /\ sync[p].pc = "log_read"
    /\ \E fail \in MayFail :
         /\ Spend(fail)
         /\ Set(p, IF fail \/ logFilePath \notin DOMAIN files
                   THEN LogThrow(sync[p], apiKey)
                   ELSE [sync[p] EXCEPT !.pc = "log_write",
                                        !.currentContent = files[logFilePath]])
    /\ UNCHANGED <<settings, apiKey, folders, files, dataset, honest, saving>>

\* A logToFile that writes the new entry alone.
LogContentOverwrite(s) == <<s.logMessage>>

\* What logToFile writes: currentContent + logMessage, or logMessage alone.
LogContent(s) ==
    IF s.exists THEN Append(s.currentContent, s.logMessage)
    ELSE <<s.logMessage>>

\* logToFile: vault.adapter.write(logFilePath, ...) resolves.
LogWrite(p) ==
    /\ sync[p].pc = "log_write"
    /\ \E fail \in MayFail :
         /\ Spend(fail)
         /\ IF fail
            THEN /\ Set(p, LogThrow(sync[p], apiKey))
                 /\ UNCHANGED files
            ELSE /\ Set(p, LogReturn(sync[p], apiKey))
                 /\ files' = WriteFile(files, logFilePath, LogContent(sync[p]))
    /\ UNCHANGED <<settings, apiKey, folders, dataset, honest, saving>>

\* What the server may answer to the request in flight.  An unpaged request
\* is answered with the bare array.
Answers(s) ==
    IF ~honest THEN Responses(dataset, s.currentPage)
    ELSE IF s.op = "daily" THEN {Documented(dataset, s.currentPage)}
    ELSE {Resp("array", FALSE, PageData(dataset, 0), FALSE, 0, 0)}

\* requestUrl resolves or rejects; a response is then logged.
Receive(p) ==
    /\ sync[p].pc = "request"
    /\ \E r \in Answers(sync[p]) :
         LET s == [sync[p] EXCEPT !.response = r,
                                  !.responses = Append(@, r)]
         IN  Set(p, IF r.kind = "throw"
                    THEN ApiCatch(Raise(s, "request"), "Request failed")
                    ELSE CallLog(s, ResponseEntry(r.status), "check"))
    /\ UNCHANGED <<settings, apiKey, folders, files, faults, dataset, honest, saving>>

\* The fetcher goes on after the response was logged.  The model follows a
\* sync for MaxRequests requests.
Check(p) ==
    /\ sync[p].pc = "check"
    /\ Continues(sync[p]) => Len(sync[p].requests) < MaxRequests
    /\ Set(p, IF sync[p].op = "daily" THEN AfterResponse(sync[p])
              ELSE AfterConversations(sync[p]))
    /\ UNCHANGED <<settings, apiKey, folders, files, faults, dataset, honest, saving>>

\* The sync resumes with the fetched collection and groups it.
Group(p) ==
    /\ sync[p].pc = "grouping"
    /\ Set(p, Grouped(sync[p]))
    /\ UNCHANGED <<settings, apiKey, folders, files, faults, dataset, honest, saving>>

\* vault.adapter.write(filePath, content) of an output file resolves.
Write(p) ==
    /\ sync[p].pc = "writing"
    /\ \E fail \in MayFail :
         /\ Spend(fail)
         /\ IF fail
            THEN /\ Set(p, SyncCatch(Raise(sync[p], "write")))
                 /\ UNCHANGED files
            ELSE /\ Set(p, Wrote(sync[p]))
                 /\ files' = WriteFile(files, WritePath(sync[p]),
                                        WriteContent(sync[p]))
    /\ UNCHANGED <<settings, apiKey, folders, dataset, honest, saving>>

\* Values the user may type into the API Key field.
KeyValues == {"", "k1", "k2"}

\* Settings tab, API Key onChange: settings.apiKey is assigned and
\* saveSettings is called, which suspends at saveData.
ChangeApiKey(value) ==
    /\ saving < MaxSaving
    /\ value # settings.apiKey
    /\ settings' = [settings EXCEPT !.apiKey = value]
    /\ saving' = saving + 1
    /\ UNCHANGED <<apiKey, folders, files, faults, dataset, honest, sync>>

\* Settings tab, Folder Path onChange: settings.folderPath is assigned and
\* saveSettings is called.
ChangeFolderPath(value) ==
    /\ saving < MaxSaving
    /\ value # settings.folderPath
    /\ settings' = [settings EXCEPT !.folderPath = value]
    /\ saving' = saving + 1
    /\ UNCHANGED <<apiKey, folders, files, faults, dataset, honest, sync>>

\* Settings tab, Start Date onChange: settings.startDate is assigned and
\* saveSettings is called.
ChangeStartDate(value) ==
    /\ saving < MaxSaving
    /\ value # settings.startDate
    /\ settings' = [settings EXCEPT !.startDate = value]
    /\ saving' = saving + 1
    /\ UNCHANGED <<apiKey, folders, files, faults, dataset, honest, sync>>

\* saveSettings: saveData resolves and api.setApiKey copies the key the
\* settings hold by then, or saveData rejects and the copy is not made.
SaveDone ==
    /\ saving > 0
    /\ saving' = saving - 1
    /\ \E fail \in MayFail :
         /\ Spend(fail)
         /\ apiKey' = IF fail THEN apiKey ELSE settings.apiKey
    /\ UNCHANGED <<settings, folders, files, dataset, honest, sync>>

Step(p) ==
    \/ EnsureExists(p) \/ EnsureCreate(p)
    \/ LogDir(p) \/ LogMkdir(p) \/ LogFile(p) \/ LogRead(p) \/ LogWrite(p)
    \/ Receive(p) \/ Check(p) \/ Group(p) \/ Write(p)

\* One invocation of a sync operation, from any vault.
Next ==
    \/ \E o \in Ops : Start(1, o)
    \/ Step(1)

Spec == Init /\ [][Next]_vars

\* Two invocations, the second after the first has returned, with the key
\* set.
InitTwice ==
    /\ settings \in [apiKey : {"k1"}, folderPath : FolderSettings,
                     startDate : {DefaultStartDate}]
    /\ apiKey = settings.apiKey
    /\ \E v \in InitialVaults : folders = v.folders /\ files = v.files
    /\ faults = MaxFaults
    /\ dataset \in Datasets
    /\ honest = TRUE
    /\ saving = 0
    /\ sync = [p \in Syncs |-> NewSync]

NextTwice ==
    \E p \in Syncs :
        \/ \E o \in Ops : Serial(p) /\ Start(p, o)
        \/ Step(p)

SpecTwice == InitTwice /\ [][NextTwice]_vars

\* The server holds one page of records of two days; one of the records
\* may lack a summary.
OverlapDatasets == { <<<<RecA, RecB>>>>, <<<<RecA, RecE>>>> }

\* Two invocations in flight at once: the second may be invoked while the
\* first is suspended at an await, and the two then interleave at awaits.
\* The key is set, the server answers as documented and no vault call fails
\* of itself.
InitOverlap ==
    /\ settings \in [apiKey : {"k1"}, folderPath : FolderSettings,
                     startDate : {DefaultStartDate}]
    /\ apiKey = settings.apiKey
    /\ \E v \in InitialVaults : folders = v.folders /\ files = v.files
    /\ faults = 0
    /\ dataset \in OverlapDatasets
    /\ honest = TRUE
    /\ saving = 0
    /\ sync = [p \in Syncs |-> NewSync]

\* Syncs are numbered in the order of their invocation.
Invoked(p) == \A q \in Syncs : q < p => sync[q].pc # "idle"

NextOverlap ==
    \E p \in Syncs :
        \/ \E o \in Ops : Invoked(p) /\ Start(p, o)
        \/ Step(p)

SpecOverlap == InitOverlap /\ [][NextOverlap]_vars

\* One invocation while the user edits the settings: the key may be unset
\* or set when the plugin has loaded, and the server answers as documented.
InitSettings ==
    /\ settings \in [apiKey : {"", "k1"}, folderPath : FolderSettings,
                     startDate : {DefaultStartDate}]
    /\ apiKey = settings.apiKey
    /\ \E v \in InitialVaults : folders = v.folders /\ files = v.files
    /\ faults = MaxFaults
    /\ dataset \in OverlapDatasets
    /\ honest = TRUE
    /\ saving = 0
    /\ sync = [p \in Syncs |-> NewSync]

NextSettings ==
    \/ \E o \in Ops : Start(1, o)
    \/ Step(1)
    \/ \E value \in KeyValues : ChangeApiKey(value)
    \/ \E value \in FolderSettings : ChangeFolderPath(value)
    \/ \E value \in StartDates : ChangeStartDate(value)
    \/ SaveDone

SpecSettings == InitSettings /\ [][NextSettings]_vars

(***************************************************************************)
(* Vocabulary of the properties.                                           *)
(***************************************************************************)
Pages(s) == [i \in 1..Len(s.requests) |-> s.requests[i].page]
Datas(s) == [i \in 1..Len(s.responses) |-> DataOf(s.responses[i])]
Has(seq, x) == \E i \in 1..Len(seq) : seq[i] = x
Count(seq, x) == Cardinality({i \in 1..Len(seq) : seq[i] = x})
UpTo(n) == [i \in 1..n |-> i]

\* The server has answered every request so far as one that serves n pages:
\* the answer to page k is a JSON object whose meta names k and n.
ServesPages(s, n) ==
    /\ s.op = "daily"
    /\ Len(s.responses) >= 1
    /\ \A i \in 1..Len(s.responses) :
         LET r == s.responses[i]
         IN  /\ r.kind = "object" /\ r.hasMeta
             /\ r.cur = s.requests[i].page /\ r.tot = n

(***************************************************************************)
(* C1.  Pagination termination: when the server answers page k with        *)
(* currentPage = k and totalPages = N, getBeeDaily requests pages 1, 2,    *)
(* ..., N in that order and no other, leaves its loop after the N-th       *)
(* answer, ends only by returning unless something throws, and returns     *)
(* the pages' data arrays concatenated in page order.                      *)
(***************************************************************************)
C1_PaginationTermination ==
    \A p \in Syncs : \A n \in 1..MaxPages :
        LET s == sync[p]
        IN  ServesPages(s, n) =>
              /\ Pages(s) = UpTo(Len(s.requests))
              /\ Len(s.requests) <= n
              /\ (s.pc = "check" /\ Len(s.requests) = n) => ~Continues(s)
              /\ s.returned =>
                   /\ Len(s.requests) = n
                   /\ s.logs = Flatten(Datas(s))
              /\ (s.pc = "done" /\ s.raised = <<>>) => s.returned

C1_Witness ==
    \E p \in Syncs :
        /\ ServesPages(sync[p], 2)
        /\ sync[p].returned
        /\ Pages(sync[p]) = <<1, 2>>
        /\ sync[p].logs = <<RecA, RecB, RecC>>

(***************************************************************************)
(* C2.  Missing-key guard: a sync invoked while settings.apiKey is empty   *)
(* issues no request, creates no folder, writes no file and no audit-log   *)
(* entry, emits exactly one notification and returns.                      *)
(***************************************************************************)
C2_MissingKeyGuard ==
    \A p \in Syncs :
        LET s == sync[p]
        IN  (s.pc # "idle" /\ s.guardKey = "") =>
              /\ s.pc = "done"
              /\ s.requests = <<>>
              /\ s.written = <<>>
              /\ s.logged = <<>>
              /\ s.notices = <<NoticeMissingKey>>
              /\ files = s.filesBefore
              /\ [folders |-> folders, files |-> files] \in InitialVaults

C2_Witness ==
    \E p \in Syncs :
        /\ sync[p].pc = "done"
        /\ sync[p].guardKey = ""
        /\ sync[p].op = "conversations"
        /\ sync[p].notices = <<NoticeMissingKey>>

(***************************************************************************)
(* C3.  Fatal-format handling: when a page's response body is JSON that    *)
(* lacks the data field or the meta block (or is absent), the daily sync   *)
(* ends with the error notification, no date file written and an error     *)
(* entry in the audit log.  Stated for runs in which no vault call fails.  *)
(***************************************************************************)
Malformed(r) ==
    r.kind # "throw" /\ ~(r.kind = "object" /\ r.hasData /\ r.hasMeta)

ErrorLogged(s) ==
    /\ logFilePath \in DOMAIN files
    /\ \E i \in 1..Len(files[logFilePath]) :
         /\ files[logFilePath][i].kind = "ERROR"
         /\ (logFilePath \in DOMAIN s.filesBefore
               => i > Len(s.filesBefore[logFilePath]))

C3_FatalFormat ==
    \A p \in Syncs :
        LET s == sync[p]
        IN  ( /\ s.op = "daily" /\ s.pc = "done"
              /\ faults = MaxFaults
              /\ \E i \in 1..Len(s.responses) : Malformed(s.responses[i]) )
            => /\ Has(s.notices, NoticeError(s.op))
               /\ s.written = <<>>
               /\ ErrorLogged(s)

(***************************************************************************)
(* C4.  Audit-logging failure is non-fatal: a sync in which nothing but    *)
(* vault calls inside logToFile failed ends as it would have with logging  *)
(* working: with the completion notification and no error notification.    *)
(***************************************************************************)
OnlyLoggingFailed(s) ==
    /\ s.raised # <<>>
    /\ \A i \in 1..Len(s.raised) : s.raised[i] = "log"

C4_LoggingNonFatal ==
    \A p \in Syncs :
        LET s == sync[p]
        IN  (s.pc = "done" /\ OnlyLoggingFailed(s)) =>
              /\ s.returned
              /\ Has(s.notices, NoticeComplete(s.op))
              /\ ~Has(s.notices, NoticeError(s.op))

(***************************************************************************)
(* C5.  Date groups: once a sync has grouped the fetched records, each     *)
(* group holds exactly the records whose timestamp falls on the group's    *)
(* UTC calendar day, in fetch order; no two groups share a day and every   *)
(* fetched record falls in a group.  So every record is in exactly one     *)
(* group and the groups together hold the fetched collection.              *)
(***************************************************************************)
\* The UTC calendar day of a timestamp, from its fields.
UTCDay(ts) ==
    LET h == ts.hour - ts.off
    IN  DateLabel(ts.day + (IF h < 0 THEN -1 ELSE IF h >= 24 THEN 1 ELSE 0))

OnDay(logs, d) ==
    LET Test(r) == UTCDay(r.date) = d
    IN  SelectSeq(logs, Test)

HasGrouped(s) ==
    /\ s.returned
    /\ s.pc \in {"writing", "done"}
    /\ ~Has(s.raised, "grouping")

C5_DateGroups ==
    \A p \in Syncs :
        LET s == sync[p]
            g == s.entriesByDate
        IN  HasGrouped(s) =>
              /\ \A i, j \in 1..Len(g) : g[i].date = g[j].date => i = j
              /\ \A i \in 1..Len(g) :
                   g[i].entries # <<>> /\ g[i].entries = OnDay(s.logs, g[i].date)
              /\ \A k \in 1..Len(s.logs) :
                   \E i \in 1..Len(g) : g[i].date = UTCDay(s.logs[k].date)

C5_Witness ==
    \E p \in Syncs :
        /\ HasGrouped(sync[p])
        /\ sync[p].logs = <<RecA, RecB, RecC>>
        /\ sync[p].entriesByDate =
             << [date |-> "2025-01-01", entries |-> <<RecA, RecC>>],
                [date |-> "2025-01-02", entries |-> <<RecB>>] >>

(***************************************************************************)
(* C6.  Idempotent overwrite: when a second sync of the same kind writes   *)
(* the same fetched records into the same folder as a first, completed     *)
(* one, every output file holds what it held after the first run and no    *)
(* output file has been added; a file written holds the rendering of its   *)
(* group and nothing of what it held before.                               *)
(***************************************************************************)
OutputFiles(fs) == [path \in (DOMAIN fs) \ {logFilePath} |-> fs[path]]

SameInput(a, b) ==
    /\ a.pc = "done" /\ Has(a.notices, NoticeComplete(a.op))
    /\ b.returned
    /\ b.op = a.op /\ b.logs = a.logs /\ b.folderPath = a.folderPath

C6_IdempotentOverwrite ==
    LET a == sync[1]
        b == sync[2]
    IN  /\ SameInput(a, b) => OutputFiles(files) = OutputFiles(b.filesBefore)
        /\ \A p \in Syncs : \A i \in 1..Len(sync[p].written) :
             sync[p].op = "daily" =>
               files[sync[p].written[i]] = RenderDaily(sync[p].entriesByDate[i])

C6_Witness ==
    /\ SameInput(sync[1], sync[2])
    /\ sync[2].pc = "done"
    /\ sync[1].op = "daily"
    /\ Len(sync[2].written) = 2
    /\ FilePath("Bee Daily", "2025-01-01") \in DOMAIN sync[1].filesBefore
    /\ sync[2].written[1] = FilePath("Bee Daily", "2025-01-01")

(***************************************************************************)
(* C7.  Fetch completes before write begins: once a sync has written an    *)
(* output file it issues no request and receives no response; when the     *)
(* first output file is written every request has been answered and the    *)
(* fetch has returned; a sync whose fetch failed writes no output file.    *)
(***************************************************************************)
FetchFailed(s) ==
    \E i \in 1..Len(s.raised) : s.raised[i] \in {"request", "json", "log"}

C7_FetchBeforeWrite ==
    [][\A p \in Syncs :
         LET s == sync[p]
             t == sync'[p]
         IN  /\ s.written # <<>> =>
                  t.requests = s.requests /\ t.responses = s.responses
             /\ t.written # <<>> =>
                  /\ t.returned
                  /\ Len(t.responses) = Len(t.requests)
             /\ FetchFailed(t) => t.written = <<>>]_vars

C7_Witness ==
    \E p \in Syncs :
        /\ sync[p].pc = "done"
        /\ Len(sync[p].requests) = 2
        /\ Len(sync[p].written) = 2

(***************************************************************************)
(* C8.  Sync state machine: a sync invoked with a key moves Idle ->        *)
(* Fetching -> Grouping -> Writing -> Idle (an empty collection leaves     *)
(* nothing to write).  Once an exception has been raised the sync issues   *)
(* no request and writes no output file; it only records the error in the  *)
(* audit log and returns, with exactly one error notification and no       *)
(* completion notification.                                                *)
(***************************************************************************)
LogPcs == {"log_dir", "log_mkdir", "log_file", "log_read", "log_write"}

Phase(s) ==
    CASE s.pc \in {"idle", "done"} -> "Idle"
      [] s.pc = "grouping" -> "Grouping"
      [] s.pc = "writing" -> "Writing"
      [] OTHER -> "Fetching"

PhaseStep(s, t) ==
    \/ Phase(t) = Phase(s) /\ Phase(s) # "Idle"
    \/ Phase(s) = "Idle" /\ s.pc = "idle" /\ Phase(t) = "Fetching"
    \/ Phase(s) = "Fetching" /\ Phase(t) = "Grouping"
    \/ Phase(s) = "Grouping" /\ Phase(t) = "Writing"
    \/ Phase(s) = "Grouping" /\ Phase(t) = "Idle" /\ Len(s.logs) = 0
    \/ Phase(s) = "Writing" /\ Phase(t) = "Idle"
    \/ Phase(t) = "Idle" /\ t.raised # <<>>

Unwinding(t) ==
    t.pc = "done" \/ (t.pc \in LogPcs /\ t.logRet = "rethrow")

C8_StateMachine ==
    [][\A p \in Syncs :
         LET s == sync[p]
             t == sync'[p]
         IN  (t # s /\ t.guardKey # "") =>
               /\ PhaseStep(s, t)
               /\ s.raised # <<>> =>
                    t.requests = s.requests /\ t.written = s.written
               /\ t.raised # <<>> => Unwinding(t)
               /\ (t.raised # <<>> /\ t.pc = "done") =>
                    /\ Count(t.notices, NoticeError(t.op)) = 1
                    /\ ~Has(t.notices, NoticeComplete(t.op))
               /\ (t.raised = <<>> /\ t.pc = "done") =>
                    /\ ~Has(t.notices, NoticeError(t.op))
                    /\ Count(t.notices, NoticeComplete(t.op)) = 1]_vars

C8_Witness ==
    \E p \in Syncs :
        /\ sync[p].pc = "done"
        /\ sync[p].raised = <<"write">>
        /\ Len(sync[p].written) = 1
        /\ Len(sync[p].entriesByDate) = 2
        /\ Count(sync[p].notices, NoticeError(sync[p].op)) = 1

(***************************************************************************)
(* C9.  Audit trail: the log file only ever grows by one entry at its end  *)
(* (the message of the logToFile call that writes); a request is in flight *)
(* only with its request entry last in the file, preceded by the response  *)
(* entry of the request before it; a response is processed only with its   *)
(* response entry last in the file; and while no logToFile call has        *)
(* failed, the entries the sync added are the messages it passed to        *)
(* logToFile, in call order.                                               *)
(***************************************************************************)
LogOf(fs) == IF logFilePath \in DOMAIN fs THEN fs[logFilePath] ELSE <<>>

\* The entries added to the log since the sync was invoked.
Added(s, fs) ==
    SubSeq(LogOf(fs), Len(LogOf(s.filesBefore)) + 1, Len(LogOf(fs)))

Front(seq) == SubSeq(seq, 1, Len(seq) - 1)

C9_AuditTrail ==
    [][/\ logFilePath \in DOMAIN files => logFilePath \in DOMAIN files'
       /\ IsPrefix(LogOf(files), LogOf(files'))
       /\ LogOf(files') # LogOf(files) =>
            \E p \in Syncs :
                /\ sync[p].pc = "log_write"
                /\ LogOf(files') = Append(LogOf(files), sync[p].logMessage)
       /\ \A p \in Syncs :
            LET t == sync'[p]
                log == LogOf(files')
            IN  /\ t.pc = "request" =>
                     /\ log # <<>>
                     /\ log[Len(log)] = RequestEntry(t.currentPage)
                     /\ Len(t.requests) > 1 =>
                          log[Len(log) - 1] = ResponseEntry(t.response.status)
                /\ t.pc = "check" =>
                     /\ log # <<>>
                     /\ log[Len(log)] = ResponseEntry(t.response.status)
                /\ (t.pc # "idle" /\ ~Has(t.raised, "log")) =>
                     IF t.pc \in LogPcs
                     THEN Added(t, files') = Front(t.logged)
                     ELSE Added(t, files') = t.logged]_vars

C9_Witness ==
    \E p \in Syncs :
        /\ sync[p].pc = "done"
        /\ LogOf(sync[p].filesBefore) = <<OldEntry>>
        /\ LogOf(files) =
             <<OldEntry, RequestEntry(1), ResponseEntry(200),
               RequestEntry(2), ResponseEntry(200)>>

(***************************************************************************)
(* C10.  Stale page number: every request after the first asks for the     *)
(* page after the one the previous response named, whatever page was       *)
(* asked for; the fetch returns only on a response whose currentPage       *)
(* exceeds totalPages - 1; and while the server keeps answering with the   *)
(* same currentPage c < totalPages the fetch has not returned and goes     *)
(* round its loop again, it asks for page c + 1 again and again and        *)
(* accumulates every answer's records.                                     *)
(***************************************************************************)
Stale(s, c, n) ==
    /\ s.op = "daily"
    /\ Len(s.responses) >= 1
    /\ \A i \in 1..Len(s.responses) :
         LET r == s.responses[i]
         IN  r.kind = "object" /\ r.hasMeta /\ r.cur = c /\ r.tot = n

C10_StalePage ==
    \A p \in Syncs :
        LET s == sync[p]
            n == Len(s.responses)
        IN  s.op = "daily" =>
              /\ \A i \in 2..Len(s.requests) :
                   s.requests[i].page = Or1(s.responses[i - 1].cur) + 1
              /\ s.returned =>
                   Or1(s.responses[n].cur) > Or1(s.responses[n].tot) - 1
              /\ \A c \in 1..MaxPages : \A m \in (c + 1)..MaxPages :
                   Stale(s, c, m) =>
                     /\ ~s.returned
                     /\ s.pc = "check" => Continues(s)
                     /\ \A i \in 2..Len(s.requests) : s.requests[i].page = c + 1
                     /\ s.pc = "request" => s.allBeeDaily = Flatten(Datas(s))

C10_Witness ==
    \E p \in Syncs :
        /\ Stale(sync[p], 1, 2)
        /\ Pages(sync[p]) = <<1, 2, 2>>
        /\ Len(sync[p].responses) = 3
        /\ sync[p].allBeeDaily = <<RecA, RecB, RecC>>

(***************************************************************************)
(* C11: the folder-creation race.                                          *)
(***************************************************************************)
\* The sync found its folder missing, and the folder has come into existence
\* while its createFolder call was pending.
Raced(s) == s.pc = "ensure_create" /\ s.folderPath \in folders

\* The generic failure before any fetch: the error notice, no request, no
\* output file.
FailedEarly(s) ==
    /\ s.pc = "done"
    /\ Count(s.notices, NoticeError(s.op)) = 1
    /\ s.requests = <<>>
    /\ s.written = <<>>

\* C11: when the target folder comes into existence between a sync's
\* existence check and its createFolder call, the createFolder call fails,
\* and a sync whose createFolder call failed has ended with the error
\* notice, without a request and without an output file of its own.
C11_FolderRace ==
    [][\A p \in Syncs :
         /\ Raced(sync[p]) /\ sync'[p] # sync[p]
              => Has(sync'[p].raised, "createFolder")
         /\ Has(sync'[p].raised, "createFolder") => FailedEarly(sync'[p])]_vars

\* Both syncs found the folder missing, one created it and went on to
\* fetch, and the other's createFolder failed though no vault call failed of
\* itself.
C11_Witness ==
    \E p, q \in Syncs :
        /\ p # q
        /\ faults = 0
        /\ Has(sync[p].raised, "createFolder")
        /\ FailedEarly(sync[p])
        /\ sync[p].folderPath = sync[q].folderPath
        /\ sync[q].requests # <<>>
        /\ ~Has(sync[q].raised, "createFolder")

(***************************************************************************)
(* C12: audit entries and overlapping syncs.                               *)
(***************************************************************************)
\* The messages either sync passed to logToFile.
Passed == UNION { {s.logged[i] : i \in 1..Len(s.logged)} :
                    s \in {sync[p] : p \in Syncs} }

\* How often the syncs passed message e to logToFile.
TimesPassed(e) ==
    Count(sync[1].logged, e) + Count(sync[2].logged, e)

\* C12: once two overlapping syncs have both finished, and no logToFile call
\* of theirs failed, the audit log holds every message either of them passed
\* to logToFile, as often as it was passed.
C12_EntriesSurvive ==
    (\A p \in Syncs : sync[p].pc = "done" /\ ~Has(sync[p].raised, "log"))
        => \A e \in Passed : Count(LogOf(files), e) >= TimesPassed(e)

(***************************************************************************)
(* C13: the key the guard saw and the key the requests carry.              *)
(***************************************************************************)
\* C13: every request of a sync carries in X-API-Key the value of
\* settings.apiKey that the sync's missing-key guard saw, and that value is
\* not empty, also while a settings change is in flight.
C13_GuardedKeySent ==
    \A p \in Syncs : \A i \in 1..Len(sync[p].requests) :
        /\ sync[p].requests[i].key = sync[p].guardKey
        /\ sync[p].requests[i].key # ""

====
